---------------------------- MODULE Spec2Model ----------------------------
(***************************************************************************)
(* A model of the BK-tree of src/src/lib.rs (BkTree, Node, insert, find,   *)
(* iter, into_iter) and of the Levenshtein distance of src/src/distance.rs.*)
(*                                                                         *)
(* The tree is generic over its distance function (trait Distance<T>).  In *)
(* the specification Spec the distance function is any function over a     *)
(* small item universe that meets the caller's obligations (identity,      *)
(* symmetry, triangle inequality); it is chosen once, when the tree is     *)
(* constructed, and never changes.                                         *)
(*                                                                         *)
(* Node<T> values are owned, nested structures in the source.  Here they   *)
(* live in an arena, `nodes`, in order of creation; a child edge           *)
(* (isize, Node<T>) is a record [arc, node] holding the index of the child.*)
(* A reference &Node<T> or &T is the index of the node.                    *)
(***************************************************************************)
EXTENDS Integers, Sequences, FiniteSets, TLC

\* Bounds of the model.
NumItems == 4
MaxDistance == 3
AlphabetSize == 2
MaxLen == 3

Items == 1..NumItems
Distances == 0..MaxDistance
\* The radii find is called with: negative, zero, and up to the largest distance.
Radii == (-1)..MaxDistance

VARIABLES
    dist,       \* BkTree.dist: the distance function, as [Items \X Items -> Int]
    nodes,      \* the arena of Node<T>: sequence of [word, children]
    root,       \* BkTree.root: 0 is None, otherwise the index of the root node
    inserted,   \* history: the set of items insert was ever called with
    last,       \* the last call made on the tree and the value it returned
    iterKind,   \* "none", "iter" (Iter alive) or "into" (tree consumed by IntoIter)
    queue,      \* Iter.queue / IntoIter.queue: a stack of node indices
    yielded,    \* the items next() has returned so far, in order
    a, b,       \* the arguments of a call of LevenshteinDistance.distance
    ret         \* <<d>> once that call has returned d, <<>> before it

vars == <<dist, nodes, root, inserted, last, iterKind, queue, yielded, a, b, ret>>
treeVars == <<dist, nodes, root, inserted, last, iterKind, queue, yielded>>
levVars == <<a, b, ret>>


Abs(x) == IF x < 0 THEN -x ELSE x

(***************************************************************************)
(* The distance functions a tree may be bound to.                          *)
(***************************************************************************)
Pairs == {p \in Items \X Items : p[1] < p[2]}

\* The function over Items \X Items that a table over unordered pairs defines:
\* distance(a, a) = 0 and distance(a, b) = distance(b, a).
FromPairs(f) ==
    [p \in Items \X Items |->
        IF p[1] = p[2] THEN 0
        ELSE IF p[1] < p[2] THEN f[p] ELSE f[<<p[2], p[1]>>]]

Triangle(d) ==
    \A x \in Items, y \in Items, z \in Items : d[x, z] <= d[x, y] + d[y, z]

\* The tables of distances between two different items.  Every table gives,
\* by FromPairs, a distance function with identity and symmetry; those with
\* the triangle inequality meet the obligations of trait Distance's callers.
DistanceTables(values) == {f \in [Pairs -> values] : Triangle(FromPairs(f))}
DistanceFunctions(values) == {FromPairs(f) : f \in DistanceTables(values)}

\* The tree never looks at what an item is, only at its distances, so renaming
\* the items of a distance function gives the same behaviours renamed.  One
\* function of each class of renamings is kept: the least in the order below.
Relabel(d, pi) == [p \in Items \X Items |-> d[pi[p[1]], pi[p[2]]]]

PairBefore(p, q) == p[1] < q[1] \/ (p[1] = q[1] /\ p[2] < q[2])

TableLeq(d, e) ==
    \/ d = e
    \/ \E p \in Pairs :
          /\ d[p] < e[p]
          /\ \A q \in Pairs : PairBefore(q, p) => d[q] = e[q]

LeastOfItsRenamings(d) ==
    \A pi \in Permutations(Items) : TableLeq(d, Relabel(d, pi))

TreeDistanceFunctions(values) ==
    {d \in DistanceFunctions(values) : LeastOfItsRenamings(d)}

\* A true metric also separates distinct items.
IsTrueMetric(d) == \A x \in Items, y \in Items : (d[x, y] = 0) => (x = y)

(***************************************************************************)
(* LevenshteinDistance (src/src/distance.rs).  A string is the sequence of *)
(* its chars(), a char a number of the alphabet.                           *)
(***************************************************************************)
Chars == 1..AlphabetSize
Strings == UNION {[1..n -> Chars] : n \in 0..MaxLen}

\* b_dist = if ca == cb { a_dist } else { a_dist + 1 }
BDist(ca, cb, a_dist) == IF ca = cb THEN a_dist ELSE a_dist + 1

\* A slip in the last branch: the row's neighbour is taken without its cost.
CellNoCost(a_dist, b_dist, res) ==
    IF a_dist > res
    THEN (IF b_dist > res THEN res + 1 ELSE b_dist)
    ELSE IF b_dist > a_dist THEN a_dist ELSE b_dist

\* The new res of one cell of the row.
Cell(a_dist, b_dist, res) ==
    IF a_dist > res
    THEN (IF b_dist > res THEN res + 1 ELSE b_dist)
    ELSE IF b_dist > a_dist THEN a_dist + 1 ELSE b_dist

\* for (ia, ca) in a.chars().enumerate(), from the ia-th char (counted from 1).
RECURSIVE InnerLoop(_, _, _, _, _, _)
InnerLoop(sa, cb, ia, cache, a_dist, res) ==
    IF ia > Len(sa) THEN [cache |-> cache, res |-> res]
    ELSE LET b_dist == BDist(sa[ia], cb, a_dist)
             a_dist2 == cache[ia]
             res2 == Cell(a_dist2, b_dist, res)
         IN InnerLoop(sa, cb, ia + 1, [cache EXCEPT ![ia] = res2], a_dist2, res2)

\* for (ib, cb) in b.chars().enumerate(), from the ib-th char (counted from 1);
\* the source's ib is ib - 1 here.
RECURSIVE OuterLoop(_, _, _, _, _)
OuterLoop(sa, sb, ib, cache, res) ==
    IF ib > Len(sb) THEN res
    ELSE LET r == InnerLoop(sa, sb[ib], 1, cache, ib - 1, ib - 1)
         IN OuterLoop(sa, sb, ib + 1, r.cache, r.res)

\* let mut cache: Vec<usize> = (1..).take(a_len).collect()
InitialCache(a_len) == [i \in 1..a_len |-> i]

\* <LevenshteinDistance as Distance<T>>::distance
LevenshteinDistance(sa, sb) ==
    IF sa = sb THEN 0
    ELSE IF Len(sa) = 0 THEN Len(sb)
    ELSE IF Len(sb) = 0 THEN Len(sa)
    ELSE OuterLoop(sa, sb, 1, InitialCache(Len(sa)), 0)

(***************************************************************************)
(* Node and tree helpers.                                                  *)
(***************************************************************************)
NewNode(val) == [word |-> val, children |-> <<>>]

\* A lookup that never finds the edge.
PositionNone(children, k) == 0

\* children.iter().position(|(dist, _)| *dist == k): the first index whose
\* edge is labelled k, 0 for None.
Position(children, k) ==
    IF \E i \in 1..Len(children) : children[i].arc = k
    THEN CHOOSE i \in 1..Len(children) :
            /\ children[i].arc = k
            /\ \A j \in 1..(i - 1) : children[j].arc # k
    ELSE 0

\* The new leaf is hung on the root, not on the node the walk stopped at.
PushChildAtRoot(ns, u, k, val) ==
    LET new == Len(ns) + 1
        grown == Append(ns, NewNode(val))
    IN [grown EXCEPT ![1].children = Append(@, [arc |-> k, node |-> new])]

\* u.children.push((k, Node { word: val, children: Vec::new() }))
PushChild(ns, u, k, val) ==
    LET new == Len(ns) + 1
        grown == Append(ns, NewNode(val))
    IN [grown EXCEPT ![u].children = Append(@, [arc |-> k, node |-> new])]

\* The walk follows the first edge whatever its label.
DescendFirst(children, k) == children[1].node

\* The edge the walk of insert follows from node u for label k.
Descend(children, k) == children[Position(children, k)].node

\* The test for distance 0 is left out.
IsDuplicateNever(k) == FALSE

\* insert stops at a node at distance 0 from val.
IsDuplicate(k) == k = 0

\* The loop of insert, from node u.
RECURSIVE InsertLoop(_, _, _, _)
InsertLoop(d, ns, u, val) ==
    LET k == d[ns[u].word, val] IN
    IF IsDuplicate(k) THEN ns
    ELSE IF Position(ns[u].children, k) = 0 THEN PushChild(ns, u, k, val)
    ELSE InsertLoop(d, ns, Descend(ns[u].children, k), val)

\* BkTree::insert on the tree (rt, ns): the tree after the call.
InsertTree(d, rt, ns, val) ==
    IF rt = 0
    THEN [root |-> 1, nodes |-> <<NewNode(val)>>]
    ELSE [root |-> rt, nodes |-> InsertLoop(d, ns, rt, val)]

(***************************************************************************)
(* find                                                                    *)
(***************************************************************************)
\* The comparison with its operands swapped.
MatchesSwapped(distance, max_dist) == max_dist <= distance

\* The comparison made strict.
MatchesStrict(distance, max_dist) == distance < max_dist

\* distance <= max_dist: the node is a match.
Matches(distance, max_dist) == distance <= max_dist

\* The filter made strict.
AdmitStrict(arc, distance, max_dist) == Abs(arc - distance) < max_dist

\* The filter on child edges: (*arc - distance).abs() <= max_dist.
Admit(arc, distance, max_dist) == Abs(arc - distance) <= max_dist

\* The children of a node that pass the filter, in the order of the Vec.
RECURSIVE Admitted(_, _, _)
Admitted(children, distance, max_dist) ==
    IF children = <<>> THEN <<>>
    ELSE LET c == Head(children)
             rest == Admitted(Tail(children), distance, max_dist)
         IN IF Admit(c.arc, distance, max_dist) THEN <<c.node>> \o rest ELSE rest

\* The admitted children are put in front of the queue: depth first.
NextCandidatesDepthFirst(candidates, more) == more \o Tail(candidates)

\* candidates.pop_front() / candidates.extend(...): the queue after one turn.
NextCandidates(candidates, more) == Tail(candidates) \o more

\* The entry pushed on found: (&n.word, distance).
FoundEntry(n, distance) == [ref |-> n, dist |-> distance]

\* The while loop of find.
RECURSIVE FindLoop(_, _, _, _, _, _)
FindLoop(d, ns, val, max_dist, candidates, found) ==
    IF candidates = <<>> THEN found
    ELSE LET n == Head(candidates)
             distance == d[ns[n].word, val]
             found2 == IF Matches(distance, max_dist)
                       THEN Append(found, FoundEntry(n, distance))
                       ELSE found
         IN FindLoop(d, ns, val, max_dist,
                     NextCandidates(candidates,
                                    Admitted(ns[n].children, distance, max_dist)),
                     found2)

\* BkTree::find
Find(d, rt, ns, val, max_dist) ==
    IF rt = 0 THEN <<>>
    ELSE FindLoop(d, ns, val, max_dist, <<rt>>, <<>>)

(***************************************************************************)
(* Iterators                                                               *)
(***************************************************************************)
\* iter() and into_iter(): the queue holds the root, if there is one.
IterQueue(rt) == IF rt = 0 THEN <<>> ELSE <<rt>>

\* node.children.iter().map(|(_, n)| n)
RECURSIVE ChildNodes(_)
ChildNodes(children) ==
    IF children = <<>> THEN <<>>
    ELSE <<Head(children).node>> \o ChildNodes(Tail(children))

\* The first child of the popped node is not pushed.
QueueAfterNextSkipFirst(ns, q) ==
    LET c == ChildNodes(ns[q[Len(q)]].children)
    IN SubSeq(q, 1, Len(q) - 1) \o SubSeq(c, 2, Len(c))

\* Vec::pop takes the last element; the children of the popped node are
\* pushed at the end.
QueueAfterNext(ns, q) ==
    SubSeq(q, 1, Len(q) - 1) \o ChildNodes(ns[q[Len(q)]].children)

(***************************************************************************)
(* The state machine.                                                      *)
(***************************************************************************)
NoCall == [op |-> "new"]

\* BkTree::new(dist)
Init ==
    /\ dist \in TreeDistanceFunctions(Distances)
    /\ nodes = <<>>
    /\ root = 0
    /\ inserted = {}
    /\ last = NoCall
    /\ iterKind = "none"
    /\ queue = <<>>
    /\ yielded = <<>>
    /\ a = <<>>
    /\ b = <<>>
    /\ ret = <<>>

\* bk.insert(val); insert_all is a sequence of these.  The borrow of an Iter
\* and the move into an IntoIter rule out a call while either exists.
Insert(val) ==
    /\ iterKind = "none"
    /\ LET t == InsertTree(dist, root, nodes, val) IN
        /\ root' = t.root
        /\ nodes' = t.nodes
    /\ inserted' = inserted \cup {val}
    /\ last' = [op |-> "insert", val |-> val, dup |-> val \in inserted,
                before |-> nodes]
    /\ UNCHANGED <<dist, iterKind, queue, yielded, a, b, ret>>

\* bk.find(val, max_dist).  (find may also be called while an Iter is alive;
\* it reads the same tree and returns what it returns once the Iter is dropped.)
FindCall(val, max_dist) ==
    /\ iterKind = "none"
    /\ last' = [op |-> "find", val |-> val, max_dist |-> max_dist,
                ret |-> Find(dist, root, nodes, val, max_dist)]
    /\ UNCHANGED <<dist, nodes, root, inserted, iterKind, queue, yielded, a, b, ret>>

\* bk.iter()
IterCall ==
    /\ iterKind = "none"
    /\ iterKind' = "iter"
    /\ queue' = IterQueue(root)
    /\ yielded' = <<>>
    /\ last' = [op |-> "iter"]
    /\ UNCHANGED <<dist, nodes, root, inserted, a, b, ret>>

\* bk.into_iter(): the tree is moved into the iterator.
IntoIterCall ==
    /\ iterKind = "none"
    /\ iterKind' = "into"
    /\ queue' = IterQueue(root)
    /\ yielded' = <<>>
    /\ root' = 0
    /\ last' = [op |-> "into_iter"]
    /\ UNCHANGED <<dist, nodes, inserted, a, b, ret>>

\* Iter::next / IntoIter::next returning Some(word)
NextSome ==
    /\ iterKind \in {"iter", "into"}
    /\ queue # <<>>
    /\ queue' = QueueAfterNext(nodes, queue)
    /\ yielded' = Append(yielded, nodes[queue[Len(queue)]].word)
    /\ last' = [op |-> "next", ret |-> <<nodes[queue[Len(queue)]].word>>]
    /\ UNCHANGED <<dist, nodes, root, inserted, iterKind, a, b, ret>>

\* Iter::next / IntoIter::next returning None
NextNone ==
    /\ iterKind \in {"iter", "into"}
    /\ queue = <<>>
    /\ last' = [op |-> "next", ret |-> <<>>]
    /\ UNCHANGED <<dist, nodes, root, inserted, iterKind, queue, yielded, a, b, ret>>

\* The Iter is dropped; the tree it borrowed can be used again.
DropIter ==
    /\ iterKind = "iter"
    /\ iterKind' = "none"
    /\ queue' = <<>>
    /\ yielded' = <<>>
    /\ last' = [op |-> "drop"]
    /\ UNCHANGED <<dist, nodes, root, inserted, a, b, ret>>

Next ==
    \/ \E val \in Items : Insert(val)
    \/ \E val \in Items, max_dist \in Radii : FindCall(val, max_dist)
    \/ IterCall
    \/ IntoIterCall
    \/ NextSome
    \/ NextNone
    \/ DropIter

Spec == Init /\ [][Next]_vars

(***************************************************************************)
(* Notions the properties below are stated with.                           *)
(***************************************************************************)
NodeIds == 1..Len(nodes)
Stored == {nodes[i].word : i \in NodeIds}
ChildSet(ns, u) == {ns[u].children[i] : i \in 1..Len(ns[u].children)}

\* The parent of node v in the arena ns, 0 for the root.
ParentOf(ns, v) ==
    IF \E u \in 1..Len(ns) : \E c \in ChildSet(ns, u) : c.node = v
    THEN CHOOSE u \in 1..Len(ns) : \E c \in ChildSet(ns, u) : c.node = v
    ELSE 0

\* The label of the edge above v.
ArcAbove(ns, v) ==
    LET c == CHOOSE c \in ChildSet(ns, ParentOf(ns, v)) : c.node = v IN c.arc

\* The number of nodes on the path from the root to v.
RECURSIVE DepthOf(_, _)
DepthOf(ns, v) == IF ParentOf(ns, v) = 0 THEN 1 ELSE 1 + DepthOf(ns, ParentOf(ns, v))

\* v and all its descendants.
RECURSIVE Subtree(_, _)
Subtree(ns, v) == {v} \cup UNION {Subtree(ns, c.node) : c \in ChildSet(ns, v)}

\* The number of nodes on the longest path from the root to a leaf.
Height(ns) ==
    IF ns = <<>> THEN 0
    ELSE CHOOSE h \in 1..Len(ns) :
            /\ \E v \in 1..Len(ns) : DepthOf(ns, v) = h
            /\ \A v \in 1..Len(ns) : DepthOf(ns, v) <= h

\* A set of node indices as a sequence, in order of creation.
RECURSIVE ByCreation(_)
ByCreation(S) ==
    IF S = {} THEN <<>>
    ELSE LET m == CHOOSE x \in S : \A y \in S : x <= y
         IN <<m>> \o ByCreation(S \ {m})

\* The nodes one level below the nodes of `level`, parents in the order of
\* `level`, the children of one parent in the order they were created.
RECURSIVE LevelBelow(_, _)
LevelBelow(ns, level) ==
    IF level = <<>> THEN <<>>
    ELSE ByCreation({c.node : c \in ChildSet(ns, Head(level))})
            \o LevelBelow(ns, Tail(level))

\* All nodes of the tree in breadth-first order.
RECURSIVE BreadthFirst(_, _)
BreadthFirst(ns, level) ==
    IF level = <<>> THEN <<>>
    ELSE level \o BreadthFirst(ns, LevelBelow(ns, level))

IndexIn(seq, x) == CHOOSE i \in 1..Len(seq) : seq[i] = x

IsFind == last.op = "find"
IsInsert == last.op = "insert"
\* The distance of stored node n to the query of the last find.
QueryDistance(n) == dist[nodes[n].word, last.val]
\* Some child edge was refused by the last find at a node it visited or not.
SomeEdgePruned ==
    \E u \in NodeIds : \E c \in ChildSet(nodes, u) :
        Abs(c.arc - QueryDistance(u)) > last.max_dist

(***************************************************************************)
(* C1 - Find completeness: every stored item within max_dist of the query  *)
(* is in the result of find, paired with exactly its distance to the       *)
(* query; pruning never loses a qualifying item.                           *)
(***************************************************************************)
FindComplete ==
    IsFind =>
        \A n \in NodeIds :
            QueryDistance(n) <= last.max_dist =>
                \E j \in 1..Len(last.ret) :
                    /\ last.ret[j].ref = n
                    /\ last.ret[j].dist = QueryDistance(n)

\* A find that refused an edge and still returned a match below the root,
\* while another stored item was too far.
FindCompleteWitness ==
    /\ IsFind
    /\ Len(nodes) >= 4
    /\ SomeEdgePruned
    /\ \E j \in 1..Len(last.ret) : DepthOf(nodes, last.ret[j].ref) >= 3
    /\ \E n \in NodeIds : QueryDistance(n) > last.max_dist

(***************************************************************************)
(* C2 - Find soundness: every pair find returns is a stored item with its  *)
(* distance to the query, and that distance is at most max_dist; a         *)
(* negative max_dist gives the empty result.                               *)
(***************************************************************************)
FindSound ==
    IsFind =>
        /\ \A j \in 1..Len(last.ret) :
            /\ last.ret[j].ref \in NodeIds
            /\ last.ret[j].dist = QueryDistance(last.ret[j].ref)
            /\ last.ret[j].dist <= last.max_dist
        /\ (last.max_dist < 0 => last.ret = <<>>)

\* A find that returned some stored items and left out one just beyond the bound.
FindSoundWitness ==
    /\ IsFind
    /\ Len(last.ret) >= 2
    /\ \E n \in NodeIds : QueryDistance(n) = last.max_dist + 1

(***************************************************************************)
(* C3 - No duplicates: under a true metric, for every item ever inserted   *)
(* (once or several times), find(item, 0) returns exactly one match, the   *)
(* item itself at distance 0.                                              *)
(***************************************************************************)
ExactMatchOnly(x) ==
    LET r == Find(dist, root, nodes, x, 0) IN
        /\ Len(r) = 1
        /\ nodes[r[1].ref].word = x
        /\ r[1].dist = 0

\* C3: under a true metric find(x, 0) is exactly <<(x, 0)>> for every item x
\* ever inserted.
NoDuplicates ==
    (IsTrueMetric(dist) /\ iterKind # "into") =>
        \A x \in inserted : ExactMatchOnly(x)

\* The last call inserted, for the second time or more, an item that is
\* stored below the root.
NoDuplicatesWitness ==
    /\ IsTrueMetric(dist)
    /\ IsInsert
    /\ last.dup
    /\ Len(nodes) >= 3
    /\ nodes[root].word # last.val

(***************************************************************************)
(* C4 - Traversal completeness: when iter() or into_iter() is exhausted,   *)
(* every stored item has been yielded exactly once, and the items yielded  *)
(* are the items ever inserted, one for each class of items at distance 0. *)
(***************************************************************************)
YieldedSet == {yielded[i] : i \in 1..Len(yielded)}
Exhausted == iterKind \in {"iter", "into"} /\ queue = <<>>

\* C4: an exhausted iterator has yielded every stored item exactly once, and
\* the items yielded are the inserted items, one for each distance-0 class.
TraversalComplete ==
    Exhausted =>
        /\ Len(yielded) = Len(nodes)
        /\ \A n \in NodeIds :
            Cardinality({i \in 1..Len(yielded) : yielded[i] = nodes[n].word}) = 1
        /\ YieldedSet \subseteq inserted
        /\ \A x \in inserted :
            Cardinality({y \in YieldedSet : dist[x, y] = 0}) = 1

\* into_iter() ran to its end on a tree of three items or more, into which
\* an item at distance 0 from another one had been inserted.
TraversalCompleteWitness ==
    /\ Exhausted
    /\ iterKind = "into"
    /\ Len(yielded) >= 3
    /\ Cardinality(inserted) > Len(yielded)

(***************************************************************************)
(* C6 - Result order: find returns its matches in breadth-first order of   *)
(* the tree: the root first, shallower nodes before deeper ones, the       *)
(* children of one node in the order insert created them.                  *)
(***************************************************************************)
FindOrder ==
    (IsFind /\ root # 0) =>
        LET order == BreadthFirst(nodes, <<root>>)
            r == last.ret
        IN /\ (QueryDistance(root) <= last.max_dist => r[1].ref = root)
           /\ \A i \in 1..Len(r), j \in 1..Len(r) :
                i < j =>
                    /\ IndexIn(order, r[i].ref) < IndexIn(order, r[j].ref)
                    /\ DepthOf(nodes, r[i].ref) <= DepthOf(nodes, r[j].ref)
                    /\ r[i].ref \notin Subtree(nodes, r[j].ref)
                    /\ (ParentOf(nodes, r[i].ref) = ParentOf(nodes, r[j].ref)
                            => r[i].ref < r[j].ref)

\* A find whose matches lie on two levels, a deeper match in the subtree of
\* the first child coming after a match at the second child, and which are
\* not in order of distance.
FindOrderWitness ==
    /\ IsFind
    /\ \E i \in 1..Len(last.ret), j \in 1..Len(last.ret) :
        /\ i < j
        /\ last.ret[i].dist > last.ret[j].dist
    /\ \E i \in 1..Len(last.ret), j \in 1..Len(last.ret) :
        /\ i < j
        /\ DepthOf(nodes, last.ret[i].ref) = 2
        /\ DepthOf(nodes, last.ret[j].ref) = 3
        /\ last.ret[j].ref < last.ret[i].ref

(***************************************************************************)
(* C7 - One child per distance: no two edges of a node carry the same      *)
(* label, and the node first placed under a label stays the child at that  *)
(* label: a later item at the same distance goes into its subtree.         *)
(***************************************************************************)
UniqueLabels ==
    \A u \in NodeIds :
        \A i \in 1..Len(nodes[u].children), j \in 1..Len(nodes[u].children) :
            i # j => nodes[u].children[i].arc # nodes[u].children[j].arc

\* The node the last insert created, 0 when it created none.
Created == IF Len(nodes) > Len(last.before) THEN Len(nodes) ELSE 0

FirstChildStays ==
    IsInsert =>
        \A u \in 1..Len(last.before) :
            \A c \in ChildSet(last.before, u) :
                /\ c \in ChildSet(nodes, u)
                /\ nodes[c.node].word = last.before[c.node].word
                /\ (/\ Created # 0
                    /\ Created \in Subtree(nodes, u)
                    /\ c.arc = dist[nodes[u].word, last.val])
                        => Created \in Subtree(nodes, c.node)

\* C7: labels are unique at every node, and the first child at a label stays.
OneChildPerDistance == UniqueLabels /\ FirstChildStays

\* The last insert put a new item below a child that was already there.
OneChildPerDistanceWitness ==
    /\ IsInsert
    /\ Created # 0
    /\ DepthOf(nodes, Created) >= 3
    /\ \E u \in NodeIds : Len(nodes[u].children) >= 2

(***************************************************************************)
(* C8 - Insert is a no-op for an item at distance 0 from an item stored    *)
(* anywhere in the tree, the same item or another one.                     *)
(***************************************************************************)
InsertNoOp ==
    (IsInsert /\ \E n \in 1..Len(last.before) :
                    dist[last.before[n].word, last.val] = 0)
        => (nodes = last.before /\ root = 1)

\* The last insert was of an item that is not stored and is at distance 0
\* from an item stored below the root, in a tree of three nodes or more.
InsertNoOpWitness ==
    /\ IsInsert
    /\ Len(last.before) >= 3
    /\ last.val \notin {last.before[n].word : n \in 1..Len(last.before)}
    /\ \E n \in 2..Len(last.before) : dist[last.before[n].word, last.val] = 0

(***************************************************************************)
(* C9 - Depth of a chain.                                                  *)
(***************************************************************************)
InsertedPairs == {p \in Pairs : p[1] \in inserted /\ p[2] \in inserted}
AllNonZero == \A p \in InsertedPairs : dist[p] > 0
PairwiseDistinct ==
    AllNonZero /\ \A p \in InsertedPairs, q \in InsertedPairs : p # q => dist[p] # dist[q]
PairwiseEqual ==
    AllNonZero /\ \A p \in InsertedPairs, q \in InsertedPairs : dist[p] = dist[q]

\* C9 as the specification states it: N items whose pairwise distances are
\* all distinct give a tree whose longest path from the root holds N nodes.
DistinctDistancesGiveChain ==
    PairwiseDistinct => Height(nodes) = Cardinality(inserted)

\* C9, amended: N items whose pairwise distances are all equal (and not 0)
\* give a tree whose longest path from the root holds N nodes; N items whose
\* pairwise distances are all distinct give a tree of depth at most 2.
EqualDistancesGiveChain ==
    /\ PairwiseEqual => Height(nodes) = Cardinality(inserted)
    /\ PairwiseDistinct => Height(nodes) <= 2

\* Four items, all at the same distance from each other, were inserted.
EqualDistancesWitness ==
    /\ PairwiseEqual
    /\ Cardinality(inserted) >= 4
    /\ Height(nodes) >= 4

(***************************************************************************)
(* C10 - Edge labels: every label is positive and is the distance from the *)
(* node above the edge to every item in the subtree below it; insert       *)
(* changes neither the item of a node nor the edge above it.               *)
(***************************************************************************)
LabelsAreDistances ==
    \A u \in NodeIds :
        \A c \in ChildSet(nodes, u) :
            /\ c.arc > 0
            /\ \A w \in Subtree(nodes, c.node) :
                dist[nodes[u].word, nodes[w].word] = c.arc

NodesAreFrozen ==
    IsInsert =>
        \A v \in 1..Len(last.before) :
            /\ nodes[v].word = last.before[v].word
            /\ ParentOf(nodes, v) = ParentOf(last.before, v)
            /\ ParentOf(nodes, v) # 0
                => ArcAbove(nodes, v) = ArcAbove(last.before, v)

\* C10: labels are positive distances to the whole subtree, and insert leaves
\* existing nodes and the edges above them alone.
EdgeLabels == LabelsAreDistances /\ NodesAreFrozen

\* The last insert created a node two edges or more below the root.
EdgeLabelsWitness ==
    /\ IsInsert
    /\ Created # 0
    /\ DepthOf(nodes, Created) >= 3
    /\ Len(nodes) >= 4

(***************************************************************************)
(* The specification of LevenshteinDistance.distance alone: two strings    *)
(* are picked, and the function is called on them, in either order.        *)
(***************************************************************************)
InitLev ==
    /\ dist \in {[p \in Items \X Items |-> 0]}
    /\ nodes = <<>>
    /\ root = 0
    /\ inserted = {}
    /\ last = NoCall
    /\ iterKind = "none"
    /\ queue = <<>>
    /\ yielded = <<>>
    /\ a \in Strings
    /\ b \in Strings
    /\ ret = <<>>

\* LevenshteinDistance.distance(&a, &b)
DistanceCall ==
    /\ ret = <<>>
    /\ ret' = <<LevenshteinDistance(a, b)>>
    /\ UNCHANGED <<a, b, treeVars>>

\* The caller swaps the arguments for another call.
SwapArguments ==
    /\ ret # <<>>
    /\ a' = b
    /\ b' = a
    /\ ret' = <<>>
    /\ UNCHANGED treeVars

NextLev == DistanceCall \/ SwapArguments

SpecLev == InitLev /\ [][NextLev]_vars

(***************************************************************************)
(* The edit distance, stated twice without the single row: as the least    *)
(* number of single-character edits that turn one string into the other,   *)
(* and by the recurrence over the full matrix.                             *)
(***************************************************************************)
RemoveAt(s, i) == SubSeq(s, 1, i - 1) \o SubSeq(s, i + 1, Len(s))
InsertAt(s, i, c) == SubSeq(s, 1, i) \o <<c>> \o SubSeq(s, i + 1, Len(s))

\* The strings one edit away from s.  An edit script of least length between
\* two strings never passes through a string longer than both.
Edits(s) ==
    {RemoveAt(s, i) : i \in 1..Len(s)}
        \cup {[s EXCEPT ![p[1]] = p[2]] : p \in (1..Len(s)) \X Chars}
        \cup IF Len(s) < MaxLen
             THEN {InsertAt(s, p[1], p[2]) : p \in (0..Len(s)) \X Chars}
             ELSE {}

RECURSIVE MinEditsFrom(_, _, _, _)
MinEditsFrom(seen, frontier, target, k) ==
    IF target \in frontier THEN k
    ELSE LET next == (UNION {Edits(s) : s \in frontier}) \ seen
         IN MinEditsFrom(seen \cup next, next, target, k + 1)

MinEdits(sa, sb) == MinEditsFrom({sa}, {sa}, sb, 0)

Min3(x, y, z) ==
    IF x <= y /\ x <= z THEN x ELSE IF y <= z THEN y ELSE z

FullMatrix(sa, sb) ==
    LET D[i \in 0..Len(sa), j \in 0..Len(sb)] ==
            IF i = 0 THEN j
            ELSE IF j = 0 THEN i
            ELSE Min3(D[i - 1, j] + 1,
                      D[i, j - 1] + 1,
                      D[i - 1, j - 1] + (IF sa[i] = sb[j] THEN 0 ELSE 1))
    IN D[Len(sa), Len(sb)]

(***************************************************************************)
(* C5 - LevenshteinDistance.distance(a, b) is the edit distance of a and   *)
(* b: the least number of insertions, deletions and substitutions, which   *)
(* is also the value of the full-matrix recurrence, and the value the      *)
(* function gives with its arguments swapped.                              *)
(***************************************************************************)
LevenshteinIsEditDistance ==
    ret # <<>> =>
        /\ ret[1] = MinEdits(a, b)
        /\ ret[1] = FullMatrix(a, b)
        /\ ret[1] = LevenshteinDistance(b, a)

\* The function was called on two different strings of different lengths
\* that need two edits or more.
LevenshteinWitness ==
    /\ ret # <<>>
    /\ Len(a) >= 2
    /\ Len(b) > Len(a)
    /\ ret[1] >= 2
    /\ ret[1] < Len(b)

=============================================================================
